---- MODULE Spec2Model ----
(***************************************************************************)
(* A model of types/wlr_scene.c: the scene-graph nodes with their pending  *)
(* and current state, the intrusive wl_list links that hold the children   *)
(* lists, the commit protocol, destruction and the surface traversal.      *)
(*                                                                         *)
(* Memory is modelled at the level of the list links: every node owns four *)
(* struct wl_list cells (pending.children, pending.link, current.children, *)
(* current.link) whose prev/next fields hold the address of another cell.  *)
(***************************************************************************)
EXTENDS Integers, Sequences, FiniteSets, TLC

\* Number of node allocations (calloc calls that succeed) in one run.
MaxNodes == 3
\* Number of client surfaces that exist; each can be destroyed once.
MaxSurfaces == 2
\* Number of calls made to the library in one run.
MaxCalls == 6

Nodes == 1..MaxNodes
Surfaces == 1..MaxSurfaces

\* The positions handed to wlr_scene_node_move.
Positions == {<<0, 0>>, <<5, 5>>}

\* The null pointer to a node, and the null pointer to a struct wl_list.
NULL == 0
NullCell == <<NULL, "null", "null">>

\* The address of the struct wl_list `f` of the state `st` of node n.
Cell(n, st, f) == <<n, st, f>>

\* Memory as calloc returns it.
ZeroList == [prev |-> NullCell, next |-> NullCell]
ZeroState == [x |-> 0, y |-> 0, children |-> ZeroList, link |-> ZeroList]
ZeroNode == [type |-> "NONE", parent |-> NULL, surface |-> NULL,
             current |-> ZeroState, pending |-> ZeroState]

VARIABLES
    node,           \* node[n]: the struct wlr_scene_node at address n
    alloc,          \* how many nodes calloc has handed out
    listeners,      \* listeners[s]: the listener list of surface s's destroy signal
    surface_alive,  \* surface_alive[s]: surface s has not been destroyed
    emits,          \* emits[n]: how often node n's destroy signal was emitted
    frees,          \* frees[n]: how often node n was passed to free
    log,            \* what the last call emitted, unlinked and freed, in order
    visited,        \* the calls the last traversal made to the user iterator
    moved,          \* per node: the last wlr_scene_node_move and whether a commit reached it
    last,           \* the last call and its arguments
    calls,          \* how many calls have been made
    origin,         \* origin[n]: the parent and surface node n was created with
    reordered,      \* the parents whose children were passed to place_above/below
    status,         \* "running", "aborted" (assertion failed) or "crashed"
    frame,          \* the arguments of the last wlr_scene_render and what it did
    boxes           \* two abutting boxes, the scale applied and the scaled boxes

vars == <<node, alloc, listeners, surface_alive, emits, frees, log, visited,
          moved, last, calls, origin, reordered, status, frame, boxes>>

\* The part of the state the C functions read and write.
Heap == [node |-> node, listeners |-> listeners, emits |-> emits,
         frees |-> frees, log |-> log, moved |-> moved, fault |-> FALSE]

Live(nd) == {n \in Nodes : nd[n].type # "NONE"}

Range(s) == {s[i] : i \in 1..Len(s)}

(***************************************************************************)
(* struct wl_list (libwayland).  A null pointer dereference ends the       *)
(* process: the heap is marked faulty and every later step is skipped.     *)
(***************************************************************************)
Deref(nd, c) == nd[c[1]][c[2]][c[3]]

SetPrev(h, c, v) == [h EXCEPT !.node[c[1]][c[2]][c[3]].prev = v]
SetNext(h, c, v) == [h EXCEPT !.node[c[1]][c[2]][c[3]].next = v]

Fault(h) == [h EXCEPT !.fault = TRUE]

\* list->prev = list; list->next = list;
wl_list_init(h, list) ==
    IF h.fault THEN h ELSE SetNext(SetPrev(h, list, list), list, list)

\* elm->prev = list; elm->next = list->next; list->next = elm;
\* elm->next->prev = elm;
wl_list_insert(h, list, elm) ==
    IF h.fault THEN h
    ELSE IF list = NullCell THEN Fault(h)
    ELSE LET h1 == SetPrev(h, elm, list)
             h2 == SetNext(h1, elm, Deref(h1.node, list).next)
             h3 == SetNext(h2, list, elm)
             nx == Deref(h3.node, elm).next
         IN  IF nx = NullCell THEN Fault(h3) ELSE SetPrev(h3, nx, elm)

\* elm->prev->next = elm->next; elm->next->prev = elm->prev;
\* elm->next = NULL; elm->prev = NULL;
wl_list_remove(h, elm) ==
    IF h.fault THEN h
    ELSE LET pv == Deref(h.node, elm).prev
         IN  IF pv = NullCell THEN Fault(h)
             ELSE LET h1 == SetNext(h, pv, Deref(h.node, elm).next)
                      nx == Deref(h1.node, elm).next
                  IN  IF nx = NullCell THEN Fault(h1)
                      ELSE LET h2 == SetPrev(h1, nx, Deref(h1.node, elm).prev)
                           IN  SetPrev(SetNext(h2, elm, NullCell), elm, NullCell)

\* The members of the list with head `head`, in list order, as wl_list_for_each
\* reads them: follow next until the head comes round again.
RECURSIVE ListFrom(_, _, _, _)
ListFrom(nd, head, pos, fuel) ==
    IF pos = head \/ pos = NullCell \/ fuel = 0 THEN <<>>
    ELSE <<pos[1]>> \o ListFrom(nd, head, Deref(nd, pos).next, fuel - 1)

Children(nd, n, st) ==
    ListFrom(nd, Cell(n, st, "children"),
             Deref(nd, Cell(n, st, "children")).next, MaxNodes + 1)

(***************************************************************************)
(* wl_signal of a surface's destroy event, as a list of subscribed nodes.  *)
(***************************************************************************)
RemoveAll(s, n) == SelectSeq(s, LAMBDA e : e # n)

\* wl_signal_add(&surface->events.destroy, &scene_surface->surface_destroy)
wl_signal_add(h, s, n) ==
    IF h.fault THEN h ELSE [h EXCEPT !.listeners[s] = Append(@, n)]

\* Mutation: the listener is left on the surface's destroy signal.
surface_destroy_remove_skipped(h, n) == h

\* wl_list_remove(&scene_surface->surface_destroy.link)
surface_destroy_remove(h, n) ==
    IF h.fault THEN h
    ELSE [h EXCEPT !.listeners =
             [s \in Surfaces |-> RemoveAll(h.listeners[s], n)]]

\* wlr_signal_emit_safe(&node->events.destroy, NULL): the node's own listeners
\* belong to the caller; the model counts and logs the emission.
emit_destroy(h, n) ==
    IF h.fault THEN h
    ELSE [h EXCEPT !.emits[n] = @ + 1,
                   !.log = Append(@, <<"emit", n>>)]

\* free(scene) / free(scene_surface): the memory at n is gone.
free(h, n) ==
    IF h.fault THEN h
    ELSE [h EXCEPT !.node[n] = ZeroNode,
                   !.frees[n] = @ + 1,
                   !.moved[n] = [was |-> <<0, 0>>, to |-> <<0, 0>>,
                                 committed |-> FALSE],
                   !.log = Append(@, <<"free", n>>)]

(***************************************************************************)
(* Creation.                                                               *)
(***************************************************************************)
\* wl_list_init(&state->children); wl_list_init(&state->link);
scene_node_state_init(h, n, st) ==
    wl_list_init(wl_list_init(h, Cell(n, st, "children")), Cell(n, st, "link"))

\* Mutation: the new node is linked into the parent's current children too.
scene_node_init_links_current(h, n, type, parent) ==
    LET h1 == [h EXCEPT !.node[n].type = type, !.node[n].parent = parent]
        h2 == scene_node_state_init(h1, n, "current")
        h3 == scene_node_state_init(h2, n, "pending")
    IN  IF parent # NULL
        THEN wl_list_insert(
                 wl_list_insert(h3,
                     Deref(h3.node, Cell(parent, "pending", "children")).prev,
                     Cell(n, "pending", "link")),
                 Deref(h3.node, Cell(parent, "current", "children")).prev,
                 Cell(n, "current", "link"))
        ELSE h3

\* Mutation: the new node is inserted at the head of the pending children.
scene_node_init_prepends(h, n, type, parent) ==
    LET h1 == [h EXCEPT !.node[n].type = type, !.node[n].parent = parent]
        h2 == scene_node_state_init(h1, n, "current")
        h3 == scene_node_state_init(h2, n, "pending")
    IN  IF parent # NULL
        THEN wl_list_insert(h3, Cell(parent, "pending", "children"),
                            Cell(n, "pending", "link"))
        ELSE h3

\* The node is appended to the end of the parent's pending children only.
scene_node_init(h, n, type, parent) ==
    LET h1 == [h EXCEPT !.node[n].type = type, !.node[n].parent = parent]
        h2 == scene_node_state_init(h1, n, "current")
        h3 == scene_node_state_init(h2, n, "pending")
    IN  IF parent # NULL
        THEN wl_list_insert(h3,
                 Deref(h3.node, Cell(parent, "pending", "children")).prev,
                 Cell(n, "pending", "link"))
        ELSE h3

\* The two assertions at the head of scene_node_init.
scene_node_init_asserts(nd, type, parent) ==
    /\ type = "ROOT" \/ parent # NULL
    /\ parent = NULL \/ nd[parent].type = "ROOT"

wlr_scene_create(h, n) == scene_node_init(h, n, "ROOT", NULL)

wlr_scene_surface_create(h, n, parent, s) ==
    LET h1 == scene_node_init(h, n, "SURFACE", parent)
        h2 == [h1 EXCEPT !.node[n].surface = s]
    IN  wl_signal_add(h2, s, n)

(***************************************************************************)
(* Destruction.                                                            *)
(***************************************************************************)
\* Mutation: the node's link stays in its parent's list.
scene_node_state_finish_skipped(h, n, st) == h

\* wl_list_remove(&state->link)
scene_node_state_finish(h, n, st) == wl_list_remove(h, Cell(n, st, "link"))

RECURSIVE wlr_scene_node_destroy(_, _)
RECURSIVE scene_node_finish(_, _)
RECURSIVE finish_children(_, _, _, _)

\* wl_list_for_each_safe(child, child_tmp, head, link): destroy child, then
\* go on with the successor that was read before the child was destroyed.
finish_children(h, head, pos, tmp) ==
    IF h.fault \/ pos = head THEN h
    ELSE LET h1 == wlr_scene_node_destroy(h, pos[1])
         IN  IF tmp = NullCell THEN Fault(h1)
             ELSE finish_children(h1, head, tmp, Deref(h1.node, tmp).next)

finish_children_of(h, n, st) ==
    LET head == Cell(n, st, "children")
        pos == Deref(h.node, head).next
    IN  IF h.fault THEN h
        ELSE IF pos = NullCell THEN Fault(h)
        ELSE finish_children(h, head, pos, Deref(h.node, pos).next)

\* Mutation: the destroy signal is emitted after the teardown, not before.
scene_node_finish_emits_last(h, n) ==
    LET h2 == finish_children_of(h, n, "current")
        h3 == finish_children_of(h2, n, "pending")
        h4 == scene_node_state_finish(h3, n, "current")
        h5 == scene_node_state_finish(h4, n, "pending")
    IN  IF h5.fault THEN h5
        ELSE emit_destroy([h5 EXCEPT !.log = Append(@, <<"unlink", n>>)], n)

\* Mutation: the pending children are destroyed before the current ones.
scene_node_finish_pending_first(h, n) ==
    LET h1 == emit_destroy(h, n)
        h2 == finish_children_of(h1, n, "pending")
        h3 == finish_children_of(h2, n, "current")
        h4 == scene_node_state_finish(h3, n, "current")
        h5 == scene_node_state_finish(h4, n, "pending")
    IN  IF h5.fault THEN h5
        ELSE [h5 EXCEPT !.log = Append(@, <<"unlink", n>>)]

scene_node_finish(h, n) ==
    LET h1 == emit_destroy(h, n)
        h2 == finish_children_of(h1, n, "current")
        h3 == finish_children_of(h2, n, "pending")
        h4 == scene_node_state_finish(h3, n, "current")
        h5 == scene_node_state_finish(h4, n, "pending")
    IN  IF h5.fault THEN h5
        ELSE [h5 EXCEPT !.log = Append(@, <<"unlink", n>>)]

wlr_scene_node_destroy(h, n) ==
    IF n = NULL \/ h.fault THEN h
    ELSE LET h1 == scene_node_finish(h, n)
         IN  IF h1.fault THEN h1
             ELSE IF h1.node[n].type = "ROOT" THEN free(h1, n)
             ELSE IF h1.node[n].type = "SURFACE"
                  THEN free(surface_destroy_remove(h1, n), n)
             ELSE h1

\* scene_surface_handle_surface_destroy: the listener of the surface's
\* destroy signal destroys the node that holds it.
scene_surface_handle_surface_destroy(h, n) == wlr_scene_node_destroy(h, n)

\* The surface's destroy signal is emitted: every listener still subscribed
\* when its turn comes is notified once.
RECURSIVE surface_emit_destroy(_, _, _)
surface_emit_destroy(h, s, todo) ==
    IF todo = <<>> \/ h.fault THEN h
    ELSE IF Head(todo) \in Range(h.listeners[s])
         THEN surface_emit_destroy(
                  scene_surface_handle_surface_destroy(h, Head(todo)),
                  s, Tail(todo))
         ELSE surface_emit_destroy(h, s, Tail(todo))

(***************************************************************************)
(* Pending edits and commit.                                               *)
(***************************************************************************)
\* Mutation: only x is copied.
scene_node_state_move_x_only(h, n) ==
    IF h.fault THEN h
    ELSE [h EXCEPT !.node[n].current.x = h.node[n].pending.x]

\* Mutation: the position is moved out of the pending state, which is
\* left at the origin.
scene_node_state_move_takes(h, n) ==
    IF h.fault THEN h
    ELSE [h EXCEPT !.node[n].current.x = h.node[n].pending.x,
                   !.node[n].current.y = h.node[n].pending.y,
                   !.node[n].pending.x = 0,
                   !.node[n].pending.y = 0]

\* dst->x = src->x; dst->y = src->y;  (dst = current, src = pending)
scene_node_state_move(h, n) ==
    IF h.fault THEN h
    ELSE [h EXCEPT !.node[n].current.x = h.node[n].pending.x,
                   !.node[n].current.y = h.node[n].pending.y]

\* History only: a commit has reached n since its last move.
NoteCommitted(h, n) ==
    IF h.fault THEN h
    ELSE [h EXCEPT !.moved[n].committed = TRUE,
                   !.moved[n].was = h.moved[n].to]

RECURSIVE wlr_scene_node_commit(_, _)
RECURSIVE commit_relink(_, _, _)
RECURSIVE commit_children(_, _, _)

\* First loop: every pending child, in pending order, is unlinked from where
\* it sits in current.children and appended at its end.
commit_relink(h, n, pos) ==
    IF h.fault \/ pos = Cell(n, "pending", "children") THEN h
    ELSE IF pos = NullCell THEN Fault(h)
    ELSE LET child == pos[1]
             h1 == wl_list_remove(h, Cell(child, "current", "link"))
             h2 == wl_list_insert(h1,
                       Deref(h1.node, Cell(n, "current", "children")).prev,
                       Cell(child, "current", "link"))
         IN  commit_relink(h2, n, Deref(h2.node, pos).next)

\* Second loop: commit every child now in current.children.
commit_children(h, n, pos) ==
    IF h.fault \/ pos = Cell(n, "current", "children") THEN h
    ELSE IF pos = NullCell THEN Fault(h)
    ELSE LET h1 == wlr_scene_node_commit(h, pos[1])
         IN  commit_children(h1, n, Deref(h1.node, pos).next)

wlr_scene_node_commit(h, n) ==
    LET h1 == NoteCommitted(scene_node_state_move(h, n), n)
        h2 == commit_relink(h1, n,
                  Deref(h1.node, Cell(n, "pending", "children")).next)
        h3 == commit_children(h2, n,
                  Deref(h2.node, Cell(n, "current", "children")).next)
    IN  h3

\* Mutation: the position is written to the current state as well.
wlr_scene_node_move_writes_current(h, n, x, y) ==
    [h EXCEPT !.node[n].pending.x = x,
              !.node[n].pending.y = y,
              !.node[n].current.x = x,
              !.node[n].current.y = y,
              !.moved[n] = [was |-> <<h.node[n].current.x, h.node[n].current.y>>,
                            to |-> <<x, y>>, committed |-> FALSE]]

\* node->pending.x = x; node->pending.y = y;
wlr_scene_node_move(h, n, x, y) ==
    [h EXCEPT !.node[n].pending.x = x,
              !.node[n].pending.y = y,
              !.moved[n] = [was |-> <<h.node[n].current.x, h.node[n].current.y>>,
                            to |-> <<x, y>>, committed |-> FALSE]]

\* assert(node->parent == sibling->parent)
place_asserts(nd, n, sibling) == nd[n].parent = nd[sibling].parent

\* Mutation: the node is relinked in the current list.
wlr_scene_node_place_above_current(h, n, sibling) ==
    LET h1 == wl_list_remove(h, Cell(n, "current", "link"))
    IN  wl_list_insert(h1, Cell(sibling, "current", "link"),
                       Cell(n, "current", "link"))

wlr_scene_node_place_above(h, n, sibling) ==
    LET h1 == wl_list_remove(h, Cell(n, "pending", "link"))
    IN  wl_list_insert(h1, Cell(sibling, "pending", "link"),
                       Cell(n, "pending", "link"))

wlr_scene_node_place_below(h, n, sibling) ==
    LET h1 == wl_list_remove(h, Cell(n, "pending", "link"))
    IN  wl_list_insert(h1,
                       IF h1.fault THEN NullCell
                       ELSE Deref(h1.node, Cell(sibling, "pending", "link")).prev,
                       Cell(n, "pending", "link"))

(***************************************************************************)
(* Traversal.                                                              *)
(***************************************************************************)
\* wlr_surface_for_each_surface(surface, iterator, data): the surface itself
\* at local offset (0, 0), then its sub-surfaces at their local offsets.
\* Surface 1 has one sub-surface at (1, 2); the other surfaces have none.
wlr_surface_for_each_surface(s) ==
    IF s = 1 THEN << <<(<<s, 0>>), 0, 0>>, <<(<<s, 1>>), 1, 2>> >>
    ELSE << <<(<<s, 0>>), 0, 0>> >>

\* Mutation: the drawable's local offset is not added.
surface_iterator_drops_offset(n, d, lx, ly) ==
    [node |-> n, surface |-> d[1], x |-> lx, y |-> ly]

\* surface_iterator: user_iterator(surface, data->lx + sx, data->ly + sy, ..)
\* (the record also names the scene node whose surface is being expanded)
surface_iterator(n, d, lx, ly) ==
    [node |-> n, surface |-> d[1], x |-> lx + d[2], y |-> ly + d[3]]

RECURSIVE scene_node_for_each_surface(_, _, _, _)
RECURSIVE for_each_child(_, _, _, _, _)

\* wl_list_for_each(child, &node->current.children, current.link)
for_each_child(nd, head, pos, lx, ly) ==
    IF pos = head \/ pos = NullCell THEN <<>>
    ELSE scene_node_for_each_surface(nd, pos[1], lx, ly)
         \o for_each_child(nd, head, Deref(nd, pos).next, lx, ly)

\* The sequence of calls made to the user iterator.
scene_node_for_each_surface(nd, n, lx, ly) ==
    LET lx2 == lx + nd[n].current.x
        ly2 == ly + nd[n].current.y
        ds == wlr_surface_for_each_surface(nd[n].surface)
        own == IF nd[n].type = "SURFACE"
               THEN [i \in 1..Len(ds) |-> surface_iterator(n, ds[i], lx2, ly2)]
               ELSE <<>>
        head == Cell(n, "current", "children")
    IN  own \o for_each_child(nd, head, Deref(nd, head).next, lx2, ly2)

wlr_scene_node_for_each_surface(nd, n) ==
    scene_node_for_each_surface(nd, n, 0, 0)

(***************************************************************************)
(* Rendering.  A scale factor is the rational num / den; the factors used   *)
(* here are dyadic, so the float products of the source are exact.         *)
(***************************************************************************)
\* round(): to the nearest integer, halfway cases away from zero.
round(p, q) ==
    IF p >= 0 THEN (2 * p + q) \div (2 * q)
    ELSE -((2 * (-p) + q) \div (2 * q))

\* round((offset + length) * scale) - round(offset * scale)
scale_length(length, offset, scale) ==
    round((offset + length) * scale.num, scale.den)
        - round(offset * scale.num, scale.den)

\* Mutation: x and y are overwritten before the width and height are scaled.
scale_box_overwrites_first(box, scale) ==
    LET x == round(box.x * scale.num, scale.den)
        y == round(box.y * scale.num, scale.den)
    IN  [x |-> x, y |-> y,
         width |-> scale_length(box.width, x, scale),
         height |-> scale_length(box.height, y, scale)]

\* scale_box: width and height from the unscaled x and y, then x and y.
scale_box(box, scale) ==
    [x |-> round(box.x * scale.num, scale.den),
     y |-> round(box.y * scale.num, scale.den),
     width |-> scale_length(box.width, box.x, scale),
     height |-> scale_length(box.height, box.y, scale)]

\* A pixman region is the sequence of its rectangles [x1, y1, x2, y2].
pixman_region32_init_rect(x, y, width, height) ==
    IF width > 0 /\ height > 0
    THEN << [x1 |-> x, y1 |-> y, x2 |-> x + width, y2 |-> y + height] >>
    ELSE <<>>

Max(a, b) == IF a > b THEN a ELSE b
Min(a, b) == IF a < b THEN a ELSE b

\* The intersection of a region of at most one rectangle with a region whose
\* rectangles lie side by side in one band: the non-empty intersections, in
\* the order of the second region.
RECURSIVE pixman_region32_intersect(_, _)
pixman_region32_intersect(one, region) ==
    IF one = <<>> \/ region = <<>> THEN <<>>
    ELSE LET a == one[1]
             b == Head(region)
             r == [x1 |-> Max(a.x1, b.x1), y1 |-> Max(a.y1, b.y1),
                   x2 |-> Min(a.x2, b.x2), y2 |-> Min(a.y2, b.y2)]
             rest == pixman_region32_intersect(one, Tail(region))
         IN  IF r.x1 < r.x2 /\ r.y1 < r.y2 THEN <<r>> \o rest ELSE rest

pixman_region32_not_empty(region) == region # <<>>

\* wlr_box_transform for the two orientations modelled.
wlr_box_transform(box, transform, ow, oh) ==
    IF transform = "180"
    THEN [box EXCEPT !.x = ow - box.x - box.width,
                     !.y = oh - box.y - box.height]
    ELSE box

\* Both orientations modelled are their own inverses.
wlr_output_transform_invert(transform) == transform

\* scissor_output: the call wlr_renderer_scissor(renderer, &box).
scissor_output(output, rect) ==
    LET box == [x |-> rect.x1, y |-> rect.y1,
                width |-> rect.x2 - rect.x1, height |-> rect.y2 - rect.y1]
    IN  [op |-> "scissor", clip |-> TRUE,
         box |-> wlr_box_transform(box,
                     wlr_output_transform_invert(output.transform),
                     output.width, output.height),
         surface |-> <<NULL, 0>>, alpha |-> 0]

\* wlr_renderer_scissor(renderer, NULL)
scissor_reset ==
    [op |-> "scissor", clip |-> FALSE,
     box |-> [x |-> 0, y |-> 0, width |-> 0, height |-> 0],
     surface |-> <<NULL, 0>>, alpha |-> 0]

\* wlr_render_texture_with_matrix(renderer, texture, matrix, 1.0); the
\* matrix projects the destination box.
draw(d, box) ==
    [op |-> "draw", clip |-> FALSE, box |-> box, surface |-> d, alpha |-> 1]

\* Mutation: one draw for the whole intersection, whatever its rectangles.
render_texture_draws_once(output, output_damage, d, box) ==
    LET damage == pixman_region32_intersect(
                      pixman_region32_init_rect(box.x, box.y,
                                                box.width, box.height),
                      output_damage)
    IN  IF pixman_region32_not_empty(damage)
        THEN << scissor_output(output, damage[1]), draw(d, box) >>
        ELSE <<>>

RECURSIVE render_rects(_, _, _, _)
render_rects(output, rects, d, box) ==
    IF rects = <<>> THEN <<>>
    ELSE << scissor_output(output, Head(rects)), draw(d, box) >>
         \o render_rects(output, Tail(rects), d, box)

\* render_texture: the backend calls made for the texture of drawable d.
render_texture(output, output_damage, d, box) ==
    LET damage == pixman_region32_intersect(
                      pixman_region32_init_rect(box.x, box.y,
                                                box.width, box.height),
                      output_damage)
    IN  IF pixman_region32_not_empty(damage)
        THEN render_rects(output, damage, d, box)
        ELSE <<>>

\* surface->current.width and height: a surface is 10 by 10 and a
\* sub-surface 4 by 4.
surface_size(d) == IF d[2] = 0 THEN <<10, 10>> ELSE <<4, 4>>

\* The destination box of a visit on an output.
destination_box(v, output) ==
    scale_box([x |-> v.x, y |-> v.y,
               width |-> surface_size(v.surface)[1],
               height |-> surface_size(v.surface)[2]], output.scale)

\* render_surface_iterator; textured is the set of drawables for which
\* wlr_surface_get_texture is not NULL.
render_surface_iterator(v, output, output_damage, textured) ==
    IF v.surface \notin textured THEN <<>>
    ELSE render_texture(output, output_damage, v.surface,
                        destination_box(v, output))

RECURSIVE render_visits(_, _, _, _)
render_visits(visits, output, output_damage, textured) ==
    IF visits = <<>> THEN <<>>
    ELSE render_surface_iterator(Head(visits), output, output_damage, textured)
         \o render_visits(Tail(visits), output, output_damage, textured)

\* Mutation: the scissor is left as the last rectangle set it.
wlr_scene_render_keeps_scissor(nd, scene, output, lx, ly, damage, textured) ==
    LET full_region == pixman_region32_init_rect(0, 0, output.width,
                                                 output.height)
        dmg == IF damage.present THEN damage.rects ELSE full_region
        visits == scene_node_for_each_surface(nd, scene, -lx, -ly)
    IN  IF output.enabled /\ pixman_region32_not_empty(dmg)
        THEN [traversed |-> TRUE, visits |-> visits,
              calls |-> render_visits(visits, output, dmg, textured)]
        ELSE [traversed |-> FALSE, visits |-> <<>>, calls |-> <<>>]

\* Mutation: the scissor is reset whether or not the pass runs.
wlr_scene_render_always_resets(nd, scene, output, lx, ly, damage, textured) ==
    LET full_region == pixman_region32_init_rect(0, 0, output.width,
                                                 output.height)
        dmg == IF damage.present THEN damage.rects ELSE full_region
        visits == scene_node_for_each_surface(nd, scene, -lx, -ly)
    IN  IF output.enabled /\ pixman_region32_not_empty(dmg)
        THEN [traversed |-> TRUE, visits |-> visits,
              calls |-> render_visits(visits, output, dmg, textured)
                            \o <<scissor_reset>>]
        ELSE [traversed |-> FALSE, visits |-> <<>>,
              calls |-> <<scissor_reset>>]

\* wlr_scene_render: the visits made to render_surface_iterator and the
\* calls made to the renderer.  damage.present is FALSE for damage == NULL.
wlr_scene_render(nd, scene, output, lx, ly, damage, textured) ==
    LET full_region == pixman_region32_init_rect(0, 0, output.width,
                                                 output.height)
        dmg == IF damage.present THEN damage.rects ELSE full_region
        visits == scene_node_for_each_surface(nd, scene, -lx, -ly)
    IN  IF output.enabled /\ pixman_region32_not_empty(dmg)
        THEN [traversed |-> TRUE, visits |-> visits,
              calls |-> render_visits(visits, output, dmg, textured)
                            \o <<scissor_reset>>]
        ELSE [traversed |-> FALSE, visits |-> <<>>, calls |-> <<>>]

(***************************************************************************)
(* The state machine: one action per public function, and one for the      *)
(* destruction of a client surface.                                        *)
(***************************************************************************)
NoMove == [was |-> <<0, 0>>, to |-> <<0, 0>>, committed |-> FALSE]

\* The scale factors 1, 3/2 and 2, and those used for scale_box alone.
Scale(num, den) == [num |-> num, den |-> den]
Scales == {Scale(1, 1), Scale(3, 2), Scale(2, 1), Scale(5, 4), Scale(1, 2),
           Scale(3, 4)}

\* The outputs: 20 by 20 at scale 1; at scale 3/2 and turned by 180 degrees;
\* disabled; and enabled but of no extent.
Output(enabled, width, height, scale, transform) ==
    [enabled |-> enabled, width |-> width, height |-> height,
     scale |-> scale, transform |-> transform]
Normal == Output(TRUE, 20, 20, Scale(1, 1), "normal")
Turned == Output(TRUE, 20, 20, Scale(3, 2), "180")
Disabled == Output(FALSE, 20, 20, Scale(1, 1), "normal")
NoExtent == Output(TRUE, 0, 0, Scale(1, 1), "normal")

\* The damage regions: absent, empty, one rectangle away from every surface,
\* one rectangle over the output, and two rectangles side by side.
Rect(x1, y1, x2, y2) == [x1 |-> x1, y1 |-> y1, x2 |-> x2, y2 |-> y2]
Damage(rects) == [present |-> TRUE, rects |-> rects]
Absent == [present |-> FALSE, rects |-> <<>>]
Covering == Damage(<<Rect(0, 0, 20, 20)>>)
Damages == {Absent, Damage(<<>>), Damage(<<Rect(40, 40, 50, 50)>>), Covering,
            Damage(<<Rect(0, 0, 4, 20), Rect(8, 0, 12, 20)>>)}

\* The drawables: every surface, and the sub-surface of surface 1.
Drawables == {d \in Surfaces \X {0, 1} : d[2] = 0 \/ d[1] = 1}

\* The origin of the output in the scene, with the drawables that have a
\* texture: all at the origin (0, 0), all but the sub-surface at (5, 5).
Views == {[lx |-> 0, ly |-> 0, textured |-> Drawables],
          [lx |-> 5, ly |-> 5, textured |-> {d \in Drawables : d[2] = 0}]}

\* The arguments wlr_scene_render is called with: on the enabled outputs
\* every damage region in both views, on the disabled output and on the
\* output of no extent absent and covering damage.
RenderArgs ==
    {[output |-> o, damage |-> d, view |-> v] :
         o \in {Normal, Turned}, d \in Damages, v \in Views}
    \cup {[output |-> o, damage |-> d, view |-> v] :
              o \in {Disabled, NoExtent}, d \in {Absent, Covering},
              v \in {[lx |-> 0, ly |-> 0, textured |-> Drawables]}}

NoFrame == [scene |-> NULL, output |-> Normal, lx |-> 0, ly |-> 0,
            damage |-> Absent, textured |-> {},
            did |-> [traversed |-> FALSE, visits |-> <<>>, calls |-> <<>>]]

\* The offsets and lengths of the boxes passed to scale_box alone.
MaxCoord == 3
MaxLength == 10
Coords == (-MaxCoord)..MaxCoord
Lengths == 0..MaxLength
NoBoxes == [a |-> [x |-> 0, y |-> 0, width |-> 0, height |-> 0],
            b |-> [x |-> 0, y |-> 0, width |-> 0, height |-> 0],
            scale |-> Scale(1, 1), scaled |-> FALSE,
            sa |-> [x |-> 0, y |-> 0, width |-> 0, height |-> 0],
            sb |-> [x |-> 0, y |-> 0, width |-> 0, height |-> 0]]

Call(op, n, m, x, y) == [op |-> op, n |-> n, m |-> m, x |-> x, y |-> y]

NoScene ==
    /\ node = [n \in Nodes |-> ZeroNode]
    /\ alloc = 0
    /\ listeners = [s \in Surfaces |-> <<>>]
    /\ surface_alive = [s \in Surfaces |-> TRUE]
    /\ emits = [n \in Nodes |-> 0]
    /\ frees = [n \in Nodes |-> 0]
    /\ log = <<>>
    /\ visited = <<>>
    /\ moved = [n \in Nodes |-> NoMove]
    /\ last = Call("init", NULL, NULL, 0, 0)
    /\ calls = 0
    /\ origin = [n \in Nodes |-> [parent |-> NULL, surface |-> NULL]]
    /\ reordered = {}
    /\ status = "running"
    /\ frame = NoFrame

Init ==
    /\ NoScene
    /\ boxes = NoBoxes

\* The call returned (or died of a fault) and left heap h.
Return(h, call) ==
    /\ node' = h.node
    /\ listeners' = h.listeners
    /\ emits' = h.emits
    /\ frees' = h.frees
    /\ log' = h.log
    /\ moved' = h.moved
    /\ status' = IF h.fault THEN "crashed" ELSE "running"
    /\ last' = call
    /\ calls' = calls + 1
    /\ frame' = NoFrame
    /\ UNCHANGED boxes

\* The call failed an assertion: abort() before anything was written.
Abort(call) ==
    /\ status' = "aborted"
    /\ last' = call
    /\ calls' = calls + 1
    /\ log' = <<>>
    /\ visited' = <<>>
    /\ frame' = NoFrame
    /\ UNCHANGED <<node, alloc, listeners, surface_alive, emits, frees, moved,
                   origin, reordered, boxes>>

\* The heap at the start of a call: the log of the previous call is dropped.
Entry == [Heap EXCEPT !.log = <<>>]

CreateRoot ==
    /\ status = "running"
    /\ calls < MaxCalls
    /\ alloc < MaxNodes
    /\ alloc' = alloc + 1
    /\ Return(wlr_scene_create(Entry, alloc + 1),
              Call("create_root", alloc + 1, NULL, 0, 0))
    /\ visited' = <<>>
    /\ UNCHANGED <<surface_alive, origin, reordered>>

CreateSurface(parent, s) ==
    /\ status = "running"
    /\ calls < MaxCalls
    /\ alloc < MaxNodes
    /\ surface_alive[s]
    /\ IF scene_node_init_asserts(node, "SURFACE", parent)
       THEN /\ alloc' = alloc + 1
            /\ Return(wlr_scene_surface_create(Entry, alloc + 1, parent, s),
                      Call("create_surface", alloc + 1, parent, 0, 0))
            /\ origin' = [origin EXCEPT ![alloc + 1] =
                              [parent |-> parent, surface |-> s]]
            /\ visited' = <<>>
            /\ UNCHANGED <<surface_alive, reordered>>
       ELSE Abort(Call("create_surface", NULL, NULL, 0, 0))

Destroy(n) ==
    /\ status = "running"
    /\ calls < MaxCalls
    /\ Return(wlr_scene_node_destroy(Entry, n), Call("destroy", n, NULL, 0, 0))
    /\ visited' = <<>>
    /\ UNCHANGED <<alloc, surface_alive, origin, reordered>>

SurfaceDestroy(s) ==
    /\ status = "running"
    /\ calls < MaxCalls
    /\ surface_alive[s]
    /\ Return(surface_emit_destroy(Entry, s, listeners[s]),
              Call("surface_destroy", NULL, s, 0, 0))
    /\ surface_alive' = [surface_alive EXCEPT ![s] = FALSE]
    /\ visited' = <<>>
    /\ UNCHANGED <<alloc, origin, reordered>>

Move(n, p) ==
    /\ status = "running"
    /\ calls < MaxCalls
    /\ Return(wlr_scene_node_move(Entry, n, p[1], p[2]),
              Call("move", n, NULL, p[1], p[2]))
    /\ visited' = <<>>
    /\ UNCHANGED <<alloc, surface_alive, origin, reordered>>

PlaceAbove(n, sibling) ==
    /\ status = "running"
    /\ calls < MaxCalls
    /\ IF place_asserts(node, n, sibling)
       THEN /\ Return(wlr_scene_node_place_above(Entry, n, sibling),
                      Call("place_above", n, sibling, 0, 0))
            /\ reordered' = reordered \cup ({node[n].parent} \ {NULL})
            /\ visited' = <<>>
            /\ UNCHANGED <<alloc, surface_alive, origin>>
       ELSE Abort(Call("place_above", NULL, NULL, 0, 0))

PlaceBelow(n, sibling) ==
    /\ status = "running"
    /\ calls < MaxCalls
    /\ IF place_asserts(node, n, sibling)
       THEN /\ Return(wlr_scene_node_place_below(Entry, n, sibling),
                      Call("place_below", n, sibling, 0, 0))
            /\ reordered' = reordered \cup ({node[n].parent} \ {NULL})
            /\ visited' = <<>>
            /\ UNCHANGED <<alloc, surface_alive, origin>>
       ELSE Abort(Call("place_below", NULL, NULL, 0, 0))

Commit(n) ==
    /\ status = "running"
    /\ calls < MaxCalls
    /\ Return(wlr_scene_node_commit(Entry, n), Call("commit", n, NULL, 0, 0))
    /\ visited' = <<>>
    /\ UNCHANGED <<alloc, surface_alive, origin, reordered>>

ForEachSurface(n) ==
    /\ status = "running"
    /\ calls < MaxCalls
    /\ visited' = wlr_scene_node_for_each_surface(node, n)
    /\ last' = Call("for_each_surface", n, NULL, 0, 0)
    /\ calls' = calls + 1
    /\ log' = <<>>
    /\ frame' = NoFrame
    /\ UNCHANGED <<node, alloc, listeners, surface_alive, emits, frees, moved,
                   origin, reordered, status, boxes>>

\* wlr_scene_render(scene, output, lx, ly, damage); textured is the set of
\* drawables that have a texture when the call is made.
Render(scene, output, lx, ly, damage, textured) ==
    /\ status = "running"
    /\ calls < MaxCalls
    /\ frame' = [scene |-> scene, output |-> output, lx |-> lx, ly |-> ly,
                 damage |-> damage, textured |-> textured,
                 did |-> wlr_scene_render(node, scene, output, lx, ly,
                                          damage, textured)]
    /\ last' = Call("render", scene, NULL, 0, 0)
    /\ calls' = calls + 1
    /\ log' = <<>>
    /\ visited' = <<>>
    /\ UNCHANGED <<node, alloc, listeners, surface_alive, emits, frees, moved,
                   origin, reordered, status, boxes>>

\* The scenes: wlr_scene_render takes a struct wlr_scene, a root node.
Scenes(nd) == {n \in Live(nd) : nd[n].type = "ROOT"}

Next ==
    \/ CreateRoot
    \/ \E parent \in Live(node) \cup {NULL}, s \in Surfaces :
           CreateSurface(parent, s)
    \/ \E n \in Live(node) \cup {NULL} : Destroy(n)
    \/ \E s \in Surfaces : SurfaceDestroy(s)
    \/ \E n \in Live(node), p \in Positions : Move(n, p)
    \/ \E n \in Live(node), sibling \in Live(node) : PlaceAbove(n, sibling)
    \/ \E n \in Live(node), sibling \in Live(node) : PlaceBelow(n, sibling)
    \/ \E n \in Live(node) : Commit(n)
    \/ \E n \in Live(node) : ForEachSurface(n)
    \/ \E scene \in Scenes(node) :
           Render(scene, Normal, 0, 0, Absent, Drawables)

Spec == Init /\ [][Next]_vars

\* The calls of Next in which place_above and place_below are given a node
\* and a sibling that are two nodes.
DistinctNext ==
    \/ CreateRoot
    \/ \E parent \in Live(node) \cup {NULL}, s \in Surfaces :
           CreateSurface(parent, s)
    \/ \E n \in Live(node) \cup {NULL} : Destroy(n)
    \/ \E s \in Surfaces : SurfaceDestroy(s)
    \/ \E n \in Live(node), p \in Positions : Move(n, p)
    \/ \E n \in Live(node) : \E sibling \in Live(node) \ {n} :
           PlaceAbove(n, sibling)
    \/ \E n \in Live(node) : \E sibling \in Live(node) \ {n} :
           PlaceBelow(n, sibling)
    \/ \E n \in Live(node) : Commit(n)
    \/ \E n \in Live(node) : ForEachSurface(n)

DistinctSpec == Init /\ [][DistinctNext]_vars

\* Rendering: scenes are built and committed, and rendered on every output
\* with every damage region.
RenderNext ==
    \/ CreateRoot
    \/ \E parent \in Scenes(node), s \in Surfaces : CreateSurface(parent, s)
    \/ \E n \in Live(node), p \in Positions : Move(n, p)
    \/ \E n \in Scenes(node) : Commit(n)
    \/ \E scene \in Scenes(node), a \in RenderArgs :
           Render(scene, a.output, a.view.lx, a.view.ly, a.damage,
                  a.view.textured)

RenderSpec == Init /\ [][RenderNext]_vars

\* Scaling: two boxes that abut in x are drawn from the bounded sets, and
\* scale_box is applied to both.
BoxPair(x, y, w1, w2, height, scale) ==
    LET a == [x |-> x, y |-> y, width |-> w1, height |-> height]
        b == [x |-> x + w1, y |-> y, width |-> w2, height |-> height]
    IN  [a |-> a, b |-> b, scale |-> scale, scaled |-> FALSE, sa |-> a, sb |-> b]

ScaleInit ==
    /\ NoScene
    /\ boxes \in {BoxPair(x, y, w1, w2, height, scale) :
                      x \in Coords, y \in {-1, 2}, w1 \in Lengths,
                      w2 \in Lengths, height \in {0, 3}, scale \in Scales}

ScaleBoxes ==
    /\ ~boxes.scaled
    /\ boxes' = [boxes EXCEPT !.scaled = TRUE,
                              !.sa = scale_box(boxes.a, boxes.scale),
                              !.sb = scale_box(boxes.b, boxes.scale)]
    /\ UNCHANGED <<node, alloc, listeners, surface_alive, emits, frees, log,
                   visited, moved, last, calls, origin, reordered, status,
                   frame>>

ScaleNext == ScaleBoxes

ScaleSpec == ScaleInit /\ [][ScaleNext]_vars

(***************************************************************************)
(* Views of the state used by the properties.                              *)
(***************************************************************************)
Allocated == 1..alloc
Freed(nd) == {n \in Nodes : n <= alloc /\ nd[n].type = "NONE"}

CurPos(nd, n) == <<nd[n].current.x, nd[n].current.y>>
PendPos(nd, n) == <<nd[n].pending.x, nd[n].pending.y>>
CurChildren(nd, n) == Children(nd, n, "current")
PendChildren(nd, n) == Children(nd, n, "pending")

\* What traversal and rendering can see of node n.
CurView(nd, n) == <<CurPos(nd, n), CurChildren(nd, n)>>

\* n and everything below it along current.children.
RECURSIVE CurSubtree(_, _, _)
CurSubtree(nd, n, fuel) ==
    IF fuel = 0 THEN {n}
    ELSE {n} \cup UNION {CurSubtree(nd, c, fuel - 1) : c \in Range(CurChildren(nd, n))}

\* a comes immediately before b in the sequence s.
Adjacent(s, a, b) == \E i \in 1..(Len(s) - 1) : s[i] = a /\ s[i + 1] = b

(***************************************************************************)
(* C1.  After move(n, x, y) and before a commit reaches n, n's current     *)
(* position is still the one it had before the move; once commit(n), or    *)
(* commit of the parent that has n among its current children, has run,    *)
(* n's current position is (x, y).                                         *)
(* moved[n] holds the arguments of the last move of n (to), the current    *)
(* position at that moment (was) and whether a commit has reached n since. *)
(***************************************************************************)
C1_MoveVisibleAfterCommit ==
    /\ \A n \in Live(node) :
          /\ PendPos(node, n) = moved[n].to
          /\ CurPos(node, n) = IF moved[n].committed THEN moved[n].to
                               ELSE moved[n].was
    /\ (last.op = "move" /\ status = "running") =>
          /\ ~moved[last.n].committed
          /\ moved[last.n].to = <<last.x, last.y>>
    /\ (last.op = "commit" /\ status = "running") =>
          \A m \in {last.n} \cup Range(CurChildren(node, last.n)) :
              moved[m].committed

\* A node moved to (5, 5) that a commit has reached, beside a node moved to
\* (5, 5) that no commit has reached and that still shows (0, 0).
C1_Witness ==
    /\ last.op = "commit"
    /\ \E n \in Live(node) :
          /\ n \in Range(CurChildren(node, last.n))
          /\ moved[n].committed /\ moved[n].to = <<5, 5>>
          /\ CurPos(node, n) = <<5, 5>>
    /\ \E m \in Live(node) :
          /\ ~moved[m].committed /\ moved[m].to = <<5, 5>>
          /\ CurPos(node, m) = <<0, 0>>

(***************************************************************************)
(* C2.  For siblings a and b under a parent p: place_above(a, b) followed  *)
(* by commit(p) leaves a immediately after b in p's current children;      *)
(* place_below(a, b) followed by commit(p) leaves a immediately before b.  *)
(* Stated for a # b.                                                       *)
(***************************************************************************)
C2_PlaceThenCommitAdjacent ==
    [][ ( /\ status = "running"
          /\ last.op \in {"place_above", "place_below"}
          /\ last.n # last.m
          /\ node[last.n].parent # NULL
          /\ status' = "running"
          /\ last'.op = "commit"
          /\ last'.n = node[last.n].parent )
        => LET cur == CurChildren(node', last'.n)
           IN  IF last.op = "place_above"
               THEN Adjacent(cur, last.m, last.n)
               ELSE Adjacent(cur, last.n, last.m) ]_vars

(***************************************************************************)
(* C3.  destroy(n) destroys every live node created under n exactly once,  *)
(* fires each one's destroy notification exactly once, and leaves no       *)
(* destroyed node in the pending or current children of a surviving node.  *)
(***************************************************************************)
RECURSIVE CreatedUnder(_, _)
CreatedUnder(n, fuel) ==
    IF fuel = 0 THEN {}
    ELSE LET kids == {m \in Allocated : origin[m].parent = n}
         IN  kids \cup UNION {CreatedUnder(k, fuel - 1) : k \in kids}

C3_DestroyWholeSubtree ==
    (last.op = "destroy" /\ last.n # NULL /\ status = "running") =>
        /\ \A m \in {last.n} \cup CreatedUnder(last.n, MaxNodes) :
              /\ m \notin Live(node)
              /\ emits[m] = 1
              /\ frees[m] = 1
        /\ \A p \in Live(node) :
              /\ Range(PendChildren(node, p)) \subseteq Live(node)
              /\ Range(CurChildren(node, p)) \subseteq Live(node)

(***************************************************************************)
(* C4.  During destroy(n), the destroy notification of every node the call *)
(* destroys fires before the memory of any node the call destroys is       *)
(* released.                                                               *)
(***************************************************************************)
C4_AllEmitsBeforeAnyFree ==
    (last.op = "destroy" /\ status = "running") =>
        \A i, j \in DOMAIN log :
            (log[i][1] = "free" /\ log[j][1] = "emit") => j < i

\* C4 as amended: n's own notification fires before any memory is released,
\* and the notification of each node the call destroys fires, once, before
\* that node's own memory is released.
C4_EmitBeforeOwnFree ==
    (last.op = "destroy" /\ last.n # NULL /\ status = "running") =>
        /\ log # <<>>
        /\ log[1] = <<"emit", last.n>>
        /\ \A i \in DOMAIN log :
              log[i][1] = "free" =>
                  /\ \E j \in 1..(i - 1) : log[j] = <<"emit", log[i][2]>>
                  /\ Cardinality({j \in DOMAIN log :
                                     log[j] = <<"emit", log[i][2]>>}) = 1

\* destroy of a node with two children: three notifications, three frees.
C4_Witness ==
    /\ last.op = "destroy"
    /\ status = "running"
    /\ Cardinality({i \in DOMAIN log : log[i][1] = "free"}) = 3
    /\ Cardinality({i \in DOMAIN log : log[i][1] = "emit"}) = 3

(***************************************************************************)
(* C5.  After commit(n), n and every node of n's current subtree have      *)
(* current.(x, y) = pending.(x, y) and current.children = pending.children *)
(* as sequences; the nodes outside the subtree keep their current state.   *)
(***************************************************************************)
C5_CommitSyncsSubtree ==
    [][ (last'.op = "commit" /\ status' = "running") =>
        LET sub == CurSubtree(node', last'.n, MaxNodes)
        IN  /\ \A m \in sub :
                  /\ CurPos(node', m) = PendPos(node', m)
                  /\ CurChildren(node', m) = PendChildren(node', m)
            /\ \A m \in Live(node) \ sub :
                  CurView(node', m) = CurView(node, m) ]_vars

(***************************************************************************)
(* C6.  A node made by create_surface(p, s) is linked only into p's        *)
(* pending children: it is in no current children list and for_each_surface*)
(* on p does not visit it.  It stays so until commit(p) is called; commit  *)
(* on the new node itself does not make it visible.                        *)
(***************************************************************************)
NodesVisited(nd, p) ==
    LET v == wlr_scene_node_for_each_surface(nd, p)
    IN  {v[i].node : i \in DOMAIN v}

C6_HiddenUntilParentCommit ==
    [][ \A n \in Live(node') :
          LET p == node'[n].parent
          IN  p # NULL =>
              /\ (last'.op = "create_surface" /\ last'.n = n) =>
                    /\ n \in Range(PendChildren(node', p))
                    /\ \A q \in Live(node') :
                          /\ n \notin Range(CurChildren(node', q))
                          /\ q # p => n \notin Range(PendChildren(node', q))
                    /\ n \notin NodesVisited(node', p)
              /\ ( /\ n \in Live(node)
                   /\ n \notin Range(CurChildren(node, p))
                   /\ ~(last'.op = "commit" /\ last'.n = p) ) =>
                    /\ n \notin Range(CurChildren(node', p))
                    /\ n \notin NodesVisited(node', p) ]_vars

\* commit was called on a new node itself and its parent still does not show it.
C6_Witness ==
    /\ last.op = "commit"
    /\ status = "running"
    /\ node[last.n].type = "SURFACE"
    /\ node[node[last.n].parent].type = "ROOT"
    /\ last.n \in Range(PendChildren(node, node[last.n].parent))
    /\ last.n \notin Range(CurChildren(node, node[last.n].parent))
    /\ last.n \notin NodesVisited(node, node[last.n].parent)

(***************************************************************************)
(* C7.  create_surface, move, place_above and place_below write pending    *)
(* state only: every node's current.(x, y) and current.children sequence   *)
(* are the same after the call as before it.                               *)
(***************************************************************************)
C7_PendingEditsKeepCurrent ==
    [][ last'.op \in {"create_surface", "move", "place_above", "place_below"} =>
            \A m \in Live(node) :
                /\ m \in Live(node')
                /\ CurView(node', m) = CurView(node, m) ]_vars

\* After a reordering call the pending order differs from the committed one.
C7_Witness ==
    /\ last.op \in {"place_above", "place_below"}
    /\ status = "running"
    /\ \E p \in Live(node) :
          /\ Len(CurChildren(node, p)) = 2
          /\ Len(PendChildren(node, p)) = 2
          /\ CurChildren(node, p) # PendChildren(node, p)

(***************************************************************************)
(* C8.  for_each_surface(n) visits n's current subtree in depth-first      *)
(* preorder, children in current.children order; every drawable is         *)
(* reported at the sum of current.(x, y) over the nodes on the path from n *)
(* down to its node, plus its local offset.  Pending state never changes   *)
(* the result, and the traversal of an unchanged current tree repeats.     *)
(***************************************************************************)
RECURSIVE Preorder(_, _, _)
RECURSIVE PreorderAll(_, _, _)
Preorder(nd, n, fuel) ==
    IF fuel = 0 THEN <<n>>
    ELSE <<n>> \o PreorderAll(nd, CurChildren(nd, n), fuel - 1)
PreorderAll(nd, kids, fuel) ==
    IF kids = <<>> THEN <<>>
    ELSE Preorder(nd, Head(kids), fuel) \o PreorderAll(nd, Tail(kids), fuel)

\* The node that has m among its current children.
CurParent(nd, m) ==
    CHOOSE p \in Live(nd) : m \in Range(CurChildren(nd, p))

\* The sum of the current positions from m up to n along the current tree.
RECURSIVE PathSum(_, _, _, _)
PathSum(nd, n, m, fuel) ==
    IF m = n \/ fuel = 0 THEN CurPos(nd, m)
    ELSE LET up == PathSum(nd, n, CurParent(nd, m), fuel - 1)
         IN  <<up[1] + CurPos(nd, m)[1], up[2] + CurPos(nd, m)[2]>>

DrawablesAt(nd, n, m) ==
    IF nd[m].type # "SURFACE" THEN <<>>
    ELSE LET ds == wlr_surface_for_each_surface(nd[m].surface)
             at == PathSum(nd, n, m, MaxNodes)
         IN  [i \in 1..Len(ds) |->
                 [node |-> m, surface |-> ds[i][1],
                  x |-> at[1] + ds[i][2], y |-> at[2] + ds[i][3]]]

RECURSIVE DrawablesOf(_, _, _)
DrawablesOf(nd, n, order) ==
    IF order = <<>> THEN <<>>
    ELSE DrawablesAt(nd, n, Head(order)) \o DrawablesOf(nd, n, Tail(order))

\* The visits the claim describes; it reads types, surfaces and current
\* state only.
ExpectedVisits(nd, n) == DrawablesOf(nd, n, Preorder(nd, n, MaxNodes))

\* Every traversal reports ExpectedVisits and leaves the tree as it was; a
\* call that edits pending state changes no traversal.
C8_TraversalPreorderSums ==
    [][ /\ last'.op = "for_each_surface" =>
              /\ visited' = ExpectedVisits(node, last'.n)
              /\ node' = node
        /\ last'.op \in {"move", "place_above", "place_below"} =>
              \A n \in Live(node) :
                  wlr_scene_node_for_each_surface(node', n)
                      = wlr_scene_node_for_each_surface(node, n) ]_vars

\* A root at (5, 5) with a child at (5, 5) whose surface has a sub-surface at
\* (1, 2): the traversal reports (10, 10) and then (11, 12).
C8_Witness ==
    /\ last.op = "for_each_surface"
    /\ node[last.n].type = "ROOT"
    /\ Len(visited) >= 2
    /\ visited[1].x = 10 /\ visited[1].y = 10
    /\ visited[2].x = 11 /\ visited[2].y = 12
    /\ visited[2].surface = <<1, 1>>

(***************************************************************************)
(* C9.  Children created under a root and never reordered sit in pending   *)
(* children in creation order (create_surface appends at the end) and are  *)
(* traversed in that order after commit(root).  The scenario: root R,      *)
(* surface nodes A then B, move(A, 5, 5), commit(R); for_each_surface(R)   *)
(* yields A at (5, 5) and then B at (0, 0).                                *)
(* Nodes are numbered in creation order.                                   *)
(***************************************************************************)
LiveKids(nd, p) == {m \in Live(nd) : nd[m].parent = p}

Ascending(s) == \A i, j \in DOMAIN s : i < j => s[i] < s[j]

\* The visits of the surfaces themselves (not of their sub-surfaces).
MainVisits(v) == SelectSeq(v, LAMBDA e : e.surface[2] = 0)

C9_CreationOrder ==
    /\ \A r \in Live(node) :
          (node[r].type = "ROOT" /\ r \notin reordered) =>
              /\ Range(PendChildren(node, r)) = LiveKids(node, r)
              /\ Len(PendChildren(node, r)) = Cardinality(LiveKids(node, r))
              /\ Ascending(PendChildren(node, r))
              /\ Ascending(CurChildren(node, r))
              /\ (last.op = "commit" /\ last.n = r) =>
                    CurChildren(node, r) = PendChildren(node, r)
              /\ (last.op = "for_each_surface" /\ last.n = r) =>
                    /\ Ascending([i \in DOMAIN MainVisits(visited) |->
                                     MainVisits(visited)[i].node])
                    /\ \A i \in DOMAIN visited :
                          visited[i].node \in Range(CurChildren(node, r))
    /\ ( /\ last.op = "for_each_surface" /\ last.n = 1
         /\ node[1].type = "ROOT" /\ 1 \notin reordered
         /\ LiveKids(node, 1) = {2, 3}
         /\ Range(CurChildren(node, 1)) = {2, 3}
         /\ moved[1].committed /\ moved[1].to = <<0, 0>>
         /\ moved[2].committed /\ moved[2].to = <<5, 5>>
         /\ moved[3].committed /\ moved[3].to = <<0, 0>> )
       => [i \in DOMAIN MainVisits(visited) |->
              <<MainVisits(visited)[i].node, MainVisits(visited)[i].x,
                MainVisits(visited)[i].y>>]
          = << <<2, 5, 5>>, <<3, 0, 0>> >>

\* The scenario has run: R, A, B created, A moved, R committed and traversed.
C9_Witness ==
    /\ last.op = "for_each_surface" /\ last.n = 1
    /\ node[1].type = "ROOT" /\ 1 \notin reordered
    /\ LiveKids(node, 1) = {2, 3}
    /\ Range(CurChildren(node, 1)) = {2, 3}
    /\ moved[2].committed /\ moved[2].to = <<5, 5>>
    /\ moved[3].committed /\ moved[3].to = <<0, 0>>
    /\ Len(MainVisits(visited)) = 2
    /\ MainVisits(visited)[1].node = 2 /\ MainVisits(visited)[1].x = 5
    /\ MainVisits(visited)[2].node = 3 /\ MainVisits(visited)[2].x = 0

(***************************************************************************)
(* C10.  A surface node is destroyed exactly once, whatever the order of   *)
(* destroy(node), destroy(parent) and the destruction of its surface: one  *)
(* notification and one free.  No surface node outlives its surface, and a *)
(* node destroyed before its surface is not touched when the surface is    *)
(* destroyed: its listener was removed from the surface's destroy signal.  *)
(***************************************************************************)
C10_SurfaceNodeDestroyedOnce ==
    /\ \A n \in Nodes :
          /\ n \in Live(node) => emits[n] = 0 /\ frees[n] = 0
          /\ n \in Freed(node) => emits[n] = 1 /\ frees[n] = 1
          /\ n > alloc => emits[n] = 0 /\ frees[n] = 0
    /\ \A n \in Live(node) :
          node[n].type = "SURFACE" =>
              /\ surface_alive[node[n].surface]
              /\ Len(SelectSeq(listeners[node[n].surface],
                               LAMBDA e : e = n)) = 1
    /\ \A s \in Surfaces :
          /\ \A i \in DOMAIN listeners[s] :
                /\ listeners[s][i] \in Live(node)
                /\ node[listeners[s][i]].surface = s
          /\ ~surface_alive[s] => listeners[s] = <<>>
    /\ (last.op = "surface_destroy" /\ status = "running") =>
          \A i \in DOMAIN log : origin[log[i][2]].surface = last.m

\* A surface is destroyed after a node that referred to it was destroyed:
\* nothing is emitted or freed.
C10_Witness ==
    /\ last.op = "surface_destroy"
    /\ status = "running"
    /\ log = <<>>
    /\ \E n \in Freed(node) : origin[n].surface = last.m

(***************************************************************************)
(* C11.  In a render pass on an enabled output, a drawable without a       *)
(* texture, or whose scaled destination box meets no damage rectangle,     *)
(* gets no scissor and no draw call; any other drawable gets, per damage   *)
(* rectangle its box meets, one scissor call immediately followed by one   *)
(* draw call of alpha 1.0.  Absent damage is the one full-output           *)
(* rectangle, so a textured drawable on the output is drawn exactly once.  *)
(***************************************************************************)
\* The damage of a pass: the region given, or the full output.
DamageOf(f) ==
    IF f.damage.present THEN f.damage.rects
    ELSE IF f.output.width > 0 /\ f.output.height > 0
         THEN <<Rect(0, 0, f.output.width, f.output.height)>>
         ELSE <<>>

PassRuns(f) == f.output.enabled /\ DamageOf(f) # <<>>

\* The box and the rectangle share a pixel.
Meets(box, r) ==
    /\ \E px \in box.x..(box.x + box.width - 1) : r.x1 <= px /\ px < r.x2
    /\ \E py \in box.y..(box.y + box.height - 1) : r.y1 <= py /\ py < r.y2

\* How many draws the claim gives the visit v in pass f.
DrawsOf(v, f) ==
    IF v.surface \notin f.textured THEN 0
    ELSE Cardinality({i \in DOMAIN DamageOf(f) :
                         Meets(destination_box(v, f.output), DamageOf(f)[i])})

\* The drawables to draw, in order, each as often as DrawsOf says.
RECURSIVE ExpectedDraws(_, _)
ExpectedDraws(visits, f) ==
    IF visits = <<>> THEN <<>>
    ELSE [k \in 1..DrawsOf(Head(visits), f) |-> Head(visits).surface]
         \o ExpectedDraws(Tail(visits), f)

\* The visits of the pass, as the traversal of the scene yields them.
VisitsOf(f) == scene_node_for_each_surface(node, f.scene, -f.lx, -f.ly)

IsClip(c) == c.op = "scissor" /\ c.clip
IsDraw(c) == c.op = "draw"

C11_DrawPerDamagedRect ==
    (last.op = "render" /\ PassRuns(frame)) =>
        LET c == frame.did.calls
            draws == SelectSeq(c, IsDraw)
            want == ExpectedDraws(VisitsOf(frame), frame)
        IN  /\ Len(draws) = Len(want)
            /\ \A k \in DOMAIN draws :
                  draws[k].surface = want[k] /\ draws[k].alpha = 1
            /\ Len(SelectSeq(c, IsClip)) = Len(draws)
            /\ \A k \in DOMAIN c :
                  IsClip(c[k]) => k < Len(c) /\ IsDraw(c[k + 1])
            /\ \A k \in DOMAIN c :
                  IsDraw(c[k]) => k > 1 /\ IsClip(c[k - 1])

\* A pass over two damage rectangles in which one drawable is drawn twice
\* and another, without a texture, not at all.
C11_Witness ==
    /\ last.op = "render"
    /\ PassRuns(frame)
    /\ Len(frame.damage.rects) = 2
    /\ \E i, j \in DOMAIN VisitsOf(frame) :
          /\ DrawsOf(VisitsOf(frame)[i], frame) = 2
          /\ VisitsOf(frame)[j].surface \notin frame.textured
    /\ Len(SelectSeq(frame.did.calls, IsDraw)) >= 2

(***************************************************************************)
(* C12.  A render on a disabled output, or with an empty damage region     *)
(* (the full output standing in for an absent one), does not traverse the  *)
(* tree, makes no draw and no scissor call, not even the scissor reset,    *)
(* and leaves the scene tree as it was.                                    *)
(***************************************************************************)
C12_NothingWhenDisabledOrUndamaged ==
    [][ (last'.op = "render" /\ ~PassRuns(frame')) =>
            /\ frame'.did.calls = <<>>
            /\ ~frame'.did.traversed
            /\ frame'.did.visits = <<>>
            /\ node' = node ]_vars

\* A scene with a textured drawable was rendered on a disabled output with
\* damage over it.
C12_Witness ==
    /\ last.op = "render"
    /\ ~frame.output.enabled
    /\ DamageOf(frame) # <<>>
    /\ \E i \in DOMAIN VisitsOf(frame) :
          /\ VisitsOf(frame)[i].surface \in frame.textured
          /\ DrawsOf(VisitsOf(frame)[i], frame) > 0
    /\ frame.did.calls = <<>>

\* A scene with a drawable was rendered on an enabled output with an empty
\* damage region.
C12_EmptyDamageRendered ==
    /\ last.op = "render"
    /\ frame.output.enabled
    /\ DamageOf(frame) = <<>>
    /\ VisitsOf(frame) # <<>>

(***************************************************************************)
(* C13.  scale_box keeps abutting boxes abutting: for a box [x, x + w1)    *)
(* and the box [x + w1, x + w1 + w2) next to it, scaled by the same        *)
(* factor, the scaled x plus the scaled width of the first is the scaled   *)
(* x of the second; each scaled length is round((offset + len) * s) -      *)
(* round(offset * s) taken at the unscaled offset, and each scaled x is    *)
(* round(x * s).  scale_length(10, 0, 2.0) = 20, and [0, 10), [10, 20)     *)
(* scaled by 1.5 are [0, 15), [15, 30).                                    *)
(***************************************************************************)
\* Twice the distance from the integer r to the rational p / q, times q.
TwiceOff(r, p, q) == IF 2 * r * q >= 2 * p THEN 2 * r * q - 2 * p
                     ELSE 2 * p - 2 * r * q

\* r is p / q rounded to the nearest integer, halfway cases away from zero.
IsRounded(r, p, q) ==
    /\ TwiceOff(r, p, q) <= q
    /\ TwiceOff(r, p, q) = q => (IF p >= 0 THEN r * q > p ELSE r * q < p)

C13_AbuttingStayAbutting ==
    /\ boxes.scaled =>
          LET s == boxes.scale
              a == boxes.a
              b == boxes.b
              sa == boxes.sa
              sb == boxes.sb
          IN  /\ sa.x + sa.width = sb.x
              /\ IsRounded(sa.x, a.x * s.num, s.den)
              /\ IsRounded(sa.y, a.y * s.num, s.den)
              /\ IsRounded(sa.x + sa.width, (a.x + a.width) * s.num, s.den)
              /\ IsRounded(sa.y + sa.height, (a.y + a.height) * s.num, s.den)
              /\ IsRounded(sb.x + sb.width, (b.x + b.width) * s.num, s.den)
              /\ sa.y = sb.y /\ sa.height = sb.height
    /\ scale_length(10, 0, Scale(2, 1)) = 20
    /\ scale_box([x |-> 0, y |-> 0, width |-> 10, height |-> 0], Scale(3, 2))
           = [x |-> 0, y |-> 0, width |-> 15, height |-> 0]
    /\ scale_box([x |-> 10, y |-> 0, width |-> 10, height |-> 0], Scale(3, 2))
           = [x |-> 15, y |-> 0, width |-> 15, height |-> 0]

\* Boxes of odd offset and length scaled by 3/2: both edges round, and
\* rounding the length alone would leave a gap or an overlap.
C13_Witness ==
    /\ boxes.scaled
    /\ boxes.scale = Scale(3, 2)
    /\ boxes.a.x = 1 /\ boxes.a.width = 3 /\ boxes.b.width = 3
    /\ boxes.sa.width # round(boxes.a.width * 3, 2)
    /\ boxes.sa.x + boxes.sa.width = boxes.sb.x

(***************************************************************************)
(* C14.  A call that violates a precondition aborts at the assertion and   *)
(* changes nothing: a create_surface that returns had a live root as its   *)
(* parent, a place_above or place_below that returns had a node and a      *)
(* sibling of one parent, and a call that aborts leaves every node and     *)
(* listener list as it was.  So the parent of a node never changes, and    *)
(* the parent of every node that is not a root is a root node.             *)
(***************************************************************************)
C14_AssertionsFailFast ==
    [][ /\ (last'.op = "create_surface" /\ status' # "aborted") =>
               /\ last'.m \in Live(node)
               /\ node[last'.m].type = "ROOT"
        /\ (last'.op \in {"place_above", "place_below"}
                /\ status' # "aborted") =>
               node[last'.n].parent = node[last'.m].parent
        /\ status' = "aborted" =>
               /\ node' = node
               /\ listeners' = listeners
               /\ alloc' = alloc
        /\ \A n \in Live(node) \cap Live(node') :
               node'[n].parent = node[n].parent
        /\ \A n \in Live(node') :
               node'[n].type # "ROOT" =>
                   /\ node'[n].parent \in Live(node')
                   /\ node'[node'[n].parent].type = "ROOT" ]_vars

\* The same without the last conjunct: what holds of the assertions and of
\* the parent field whatever the lists look like.
C14_AbortsChangeNothing ==
    [][ /\ (last'.op = "create_surface" /\ status' # "aborted") =>
               /\ last'.m \in Live(node)
               /\ node[last'.m].type = "ROOT"
        /\ (last'.op \in {"place_above", "place_below"}
                /\ status' # "aborted") =>
               node[last'.n].parent = node[last'.m].parent
        /\ status' = "aborted" =>
               /\ node' = node
               /\ listeners' = listeners
               /\ alloc' = alloc
        /\ \A n \in Live(node) \cap Live(node') :
               node'[n].parent = node[n].parent ]_vars

\* A create_surface under a surface node, or under no node, has aborted.
C14_Witness ==
    /\ status = "aborted"
    /\ last.op = "create_surface"
    /\ \E n \in Live(node) : node[n].type = "SURFACE"

(***************************************************************************)
(* C15.  destroy(n) goes in a fixed order: n's destroy notification comes  *)
(* first, before anything is unlinked or freed; then each child in         *)
(* n.current.children is destroyed, then each child left in                *)
(* n.pending.children, a child in both lists once, in the first round;     *)
(* last n is unlinked from its parent's lists, its surface subscription    *)
(* is removed and n is freed.                                              *)
(***************************************************************************)
RECURSIVE DestroyOrder(_, _, _)
RECURSIVE DestroyOrderAll(_, _, _)
DestroyOrder(nd, n, fuel) ==
    LET cur == CurChildren(nd, n)
        rest == SelectSeq(PendChildren(nd, n), LAMBDA c : c \notin Range(cur))
    IN  << <<"emit", n>> >>
        \o (IF fuel = 0 THEN <<>>
            ELSE DestroyOrderAll(nd, cur \o rest, fuel - 1))
        \o << <<"unlink", n>>, <<"free", n>> >>
DestroyOrderAll(nd, kids, fuel) ==
    IF kids = <<>> THEN <<>>
    ELSE DestroyOrder(nd, Head(kids), fuel)
         \o DestroyOrderAll(nd, Tail(kids), fuel)

C15_DestroyOrder ==
    [][ (last'.op = "destroy" /\ last'.n # NULL) =>
            /\ status' = "running"
            /\ log' = DestroyOrder(node, last'.n, MaxNodes)
            /\ \A s \in Surfaces : last'.n \notin Range(listeners'[s])
            /\ last'.n \notin Live(node') ]_vars

\* A root with two children was destroyed, the child created last first:
\* the order of the lists, not of creation, decided.
C15_Witness ==
    /\ last.op = "destroy"
    /\ status = "running"
    /\ Len(log) = 9
    /\ log[1] = <<"emit", 1>>
    /\ log[2] = <<"emit", 3>>
    /\ log[5] = <<"emit", 2>>
    /\ log[9] = <<"free", 1>>

(***************************************************************************)
(* C16.  commit is the sole mutator of current state: every public call    *)
(* other than commit (create_root, create_surface, destroy, move,          *)
(* place_above, place_below, for_each_surface, render) leaves              *)
(* current.(x, y) and the current.children sequence of every node alive    *)
(* after the call as they were.                                            *)
(***************************************************************************)
C16_OnlyCommitChangesCurrent ==
    [][ last'.op \in {"create_root", "create_surface", "destroy", "move",
                      "place_above", "place_below", "for_each_surface",
                      "render"} =>
            \A m \in Live(node) \cap Live(node') :
                CurView(node', m) = CurView(node, m) ]_vars

\* C16 as amended: a call other than commit leaves current.(x, y) of every
\* surviving node as it was, and its current.children too but for the nodes
\* the call destroyed, which leave it at once; the order of the children
\* that remain is kept.  Only destroy, and the destruction of a surface,
\* destroy nodes.
C16_OnlyCommitAndDestroyChangeCurrent ==
    [][ last'.op # "commit" =>
            /\ \A m \in Live(node) \cap Live(node') :
                  /\ CurPos(node', m) = CurPos(node, m)
                  /\ CurChildren(node', m)
                         = SelectSeq(CurChildren(node, m),
                                     LAMBDA c : c \in Live(node'))
            /\ last'.op \notin {"destroy", "surface_destroy"} =>
                  Live(node) \subseteq Live(node') ]_vars

\* Five calls: a root and two children created and committed, the first
\* child destroyed; the root's current children are the second child alone.
C16_Witness ==
    /\ calls = 5
    /\ last.op = "destroy"
    /\ last.n = 2
    /\ status = "running"
    /\ 1 \in Live(node)
    /\ CurChildren(node, 1) = <<3>>

(***************************************************************************)
(* C17.  place_above(node, sibling) and place_below(node, sibling) ask     *)
(* only for node.parent = sibling.parent: every call that passes the       *)
(* assertion, node = sibling included, returns without a fault and leaves  *)
(* node linked in its parent's pending.children, with the members of that  *)
(* list unchanged and the other children in the order they had.            *)
(***************************************************************************)
Without(s, n) == SelectSeq(s, LAMBDA c : c # n)

C17_PlaceKeepsMembers ==
    [][ (last'.op \in {"place_above", "place_below"}
             /\ status' # "aborted") =>
            /\ status' = "running"
            /\ LET n == last'.n
                   p == node[n].parent
               IN  p # NULL =>
                       /\ n \in Range(PendChildren(node', p))
                       /\ Range(PendChildren(node', p))
                              = Range(PendChildren(node, p))
                       /\ Without(PendChildren(node', p), n)
                              = Without(PendChildren(node, p), n) ]_vars

\* place_below(node, node) has faulted.
C17_SelfPlacedBelow ==
    /\ last.op = "place_below"
    /\ last.n = last.m
    /\ status = "crashed"

\* place_above(node, node) has returned and node is in no pending list.
C17_SelfPlacedAbove ==
    /\ last.op = "place_above"
    /\ last.n = last.m
    /\ status = "running"
    /\ node[last.n].parent # NULL
    /\ last.n \notin Range(PendChildren(node, node[last.n].parent))

(***************************************************************************)
(* C18.  Whenever a render pass runs (output enabled, damage not empty),   *)
(* its last backend call is the scissor reset, made after every scissor    *)
(* and draw of the pass, also when nothing was drawn; no scissor rectangle *)
(* of the pass is in effect after render returns.                          *)
(***************************************************************************)
\* The scissor calls of c, in order.
Scissors(c) == SelectSeq(c, LAMBDA e : e.op = "scissor")

\* A scissor rectangle is in effect after the calls c.
ClipInEffect(c) ==
    /\ Scissors(c) # <<>>
    /\ Scissors(c)[Len(Scissors(c))].clip

C18_ScissorResetLast ==
    last.op = "render" =>
        LET c == frame.did.calls
        IN  /\ ~ClipInEffect(c)
            /\ PassRuns(frame) =>
                  /\ c # <<>>
                  /\ c[Len(c)].op = "scissor"
                  /\ ~c[Len(c)].clip
                  /\ \A k \in 1..(Len(c) - 1) : IsClip(c[k]) \/ IsDraw(c[k])

\* A pass that drew at least one rectangle and then reset the scissor.
C18_Witness ==
    /\ last.op = "render"
    /\ PassRuns(frame)
    /\ Len(frame.did.calls) >= 3
    /\ IsClip(frame.did.calls[1])
    /\ frame.did.calls[Len(frame.did.calls)] = scissor_reset

\* A pass over a scene with drawables that drew nothing and reset the
\* scissor.
C18_NothingDrawn ==
    /\ last.op = "render"
    /\ PassRuns(frame)
    /\ VisitsOf(frame) # <<>>
    /\ frame.did.calls = <<scissor_reset>>

(***************************************************************************)
(* C19.  With place_above and place_below called with node # sibling only, *)
(* in every reachable state and for every live node p: the members of      *)
(* p.current.children are members of p.pending.children, every member of   *)
(* either list is a live node whose parent is p, and no node occurs twice  *)
(* in a list or in the lists of two parents.  No call faults.              *)
(***************************************************************************)
NoDuplicates(s) == \A i, j \in DOMAIN s : s[i] = s[j] => i = j

\* The list read backwards through prev is the list read through next.
RECURSIVE ListBack(_, _, _, _)
ListBack(nd, head, pos, fuel) ==
    IF pos = head \/ pos = NullCell \/ fuel = 0 THEN <<>>
    ELSE ListBack(nd, head, Deref(nd, pos).prev, fuel - 1) \o <<pos[1]>>

ChildrenBack(nd, n, st) ==
    ListBack(nd, Cell(n, st, "children"),
             Deref(nd, Cell(n, st, "children")).prev, MaxNodes + 1)

C19_ChildListsWellFormed ==
    /\ status # "crashed"
    /\ \A p \in Live(node) :
          LET cur == CurChildren(node, p)
              pend == PendChildren(node, p)
          IN  /\ Range(cur) \subseteq Range(pend)
              /\ \A c \in Range(cur) \cup Range(pend) :
                    c \in Live(node) /\ node[c].parent = p
              /\ NoDuplicates(cur)
              /\ NoDuplicates(pend)
              /\ ChildrenBack(node, p, "current") = cur
              /\ ChildrenBack(node, p, "pending") = pend
    /\ \A c \in Live(node) :
          node[c].parent # NULL =>
              /\ node[c].parent \in Live(node)
              /\ c \in Range(PendChildren(node, node[c].parent))

\* Two children of a root were committed and reordered, and one of them was
\* destroyed: the other is the one member of both lists.
C19_Witness ==
    /\ last.op = "destroy"
    /\ reordered # {}
    /\ \E p \in Live(node) :
          /\ p \in reordered
          /\ Len(CurChildren(node, p)) = 1
          /\ CurChildren(node, p) = PendChildren(node, p)
    /\ \E n \in Nodes : frees[n] = 1

(***************************************************************************)
(* C20.  commit never changes pending state and is idempotent: commit(n)   *)
(* leaves pending.(x, y) and pending.children of every node as they were,  *)
(* creates and destroys no node and fires no destroy notification, and a   *)
(* second commit(n) right after it leaves the tree as the first left it.   *)
(***************************************************************************)
C20_CommitIdempotent ==
    [][ last'.op = "commit" =>
            /\ status' = "running"
            /\ Live(node') = Live(node)
            /\ \A m \in Live(node) :
                  /\ PendPos(node', m) = PendPos(node, m)
                  /\ PendChildren(node', m) = PendChildren(node, m)
                  /\ node'[m].pending = node[m].pending
            /\ alloc' = alloc
            /\ emits' = emits
            /\ frees' = frees
            /\ listeners' = listeners
            /\ log' = <<>>
            /\ wlr_scene_node_commit(Heap', last'.n).node = node' ]_vars

\* A root was committed whose two children are pending in another order
\* than they were committed in before, one of them moved.
C20_Witness ==
    /\ last.op = "commit"
    /\ reordered # {}
    /\ last.n \in reordered
    /\ Len(CurChildren(node, last.n)) = 2
    /\ CurChildren(node, last.n) = PendChildren(node, last.n)
    /\ \E c \in Range(CurChildren(node, last.n)) :
          CurPos(node, c) = <<5, 5>>

====
